---- MODULE Spec2Model ----
(***************************************************************************)
(* Meshgram: the Meshtastic <-> Telegram bridge of src/main.py.            *)
(*                                                                         *)
(* Python str values are modelled as sequences of one-character strings,   *)
(* bytes values as sequences of integers 0..255, dicts as ordered          *)
(* sequences of <<key, value>> pairs (insertion order, as in CPython), and *)
(* unsigned 32-bit numbers as a pair <<high 16 bits, low 16 bits>>.        *)
(***************************************************************************)
EXTENDS Integers, Sequences, FiniteSets, TLC

VARIABLES
    mesh_thread, \* the thread running start_meshtastic: "not_started",
                 \* "running", "done", or "dead" after an uncaught exception
    entries,     \* the <<nickname, identifier>> pairs of the ALLOWED_NODES display
    registry,    \* ALLOWED_NODES and NODE_ID_TO_NAME as built from entries
    codec,       \* an identifier handed to the conversion helpers and the
                 \* results of the conversions applied to it so far
    iface,       \* global iface: "None" or "SerialInterface"
    bot_app,     \* global bot_app: "None" or "Application"
    main_loop,   \* global main_loop: "None" or "loop"
    subscribed,  \* pub.subscribe(on_meshtastic_receive, ...) has been executed
    polling,     \* bot_app.run_polling() is running the event loop
    loop_tasks,  \* coroutines handed to main_loop, not yet started, FIFO
    chat_calls,  \* bot.send_message calls made, in call order, each with the
                 \* execution context that made it: "loop" or "mesh"
    mesh_calls,  \* iface.sendText calls made, in call order, likewise
    events       \* inbound events handled so far, in handling order, each with
                 \* whether its handler raised, whether a send had failed before
                 \* it and, for a packet, whether a send_message call was pending

vars == <<mesh_thread, entries, registry, codec,
          iface, bot_app, main_loop, subscribed, polling,
          loop_tasks, chat_calls, mesh_calls, events>>

-----------------------------------------------------------------------------
(* Bounds of the model *)

\* Inbound events (mesh packets and chat updates together) in one behaviour.
MaxEvents == 2

\* Key: value pairs in an ALLOWED_NODES display.
MaxEntries == 3

-----------------------------------------------------------------------------
(* Python str, bytes and dict primitives *)

\* Whitespace characters removed by str.strip().
IsSpace(c) == c \in {" ", "\t", "\n", "\r"}

UpperLetters == <<"A","B","C","D","E","F","G","H","I","J","K","L","M",
                  "N","O","P","Q","R","S","T","U","V","W","X","Y","Z">>
LowerLetters == <<"a","b","c","d","e","f","g","h","i","j","k","l","m",
                  "n","o","p","q","r","s","t","u","v","w","x","y","z">>

\* str.lower() on one character.
LowerChar(c) ==
    IF \E i \in 1..26 : UpperLetters[i] = c
    THEN LowerLetters[CHOOSE i \in 1..26 : UpperLetters[i] = c]
    ELSE c

\* str.lower()
Lower(s) == [i \in 1..Len(s) |-> LowerChar(s[i])]

\* str.strip(): drop leading and trailing whitespace.
Strip(s) ==
    LET keep == {i \in 1..Len(s) : ~IsSpace(s[i])}
    IN  IF keep = {} THEN <<>>
        ELSE LET first == CHOOSE i \in keep : \A j \in keep : i <= j
                 last  == CHOOSE i \in keep : \A j \in keep : j <= i
             IN  SubSeq(s, first, last)

\* s.split(" ")[0]: the characters before the first space character.
SplitSpaceFirst(s) ==
    LET spaces == {i \in 1..Len(s) : s[i] = " "}
    IN  IF spaces = {} THEN s
        ELSE SubSeq(s, 1, (CHOOSE i \in spaces : \A j \in spaces : i <= j) - 1)

\* s[n:] with 0-based n >= 0.
SliceFrom(s, n) == SubSeq(s, n + 1, Len(s))

\* s.startswith(c) for a one-character prefix.
StartsWith(s, c) == Len(s) >= 1 /\ s[1] = c

\* The characters of the bytes the model's payloads contain.
Chr(b) ==
    CASE b = 9   -> "\t"
      [] b = 10  -> "\n"
      [] b = 32  -> " "
      [] b = 104 -> "h"
      [] b = 105 -> "i"
      [] OTHER   -> "?"

\* bytes.decode(errors="ignore"): UTF-8 with undecodable bytes dropped.  The
\* payloads of the model hold ASCII bytes and the byte 255, which no valid
\* UTF-8 sequence contains.
RECURSIVE DecodeIgnore(_)
DecodeIgnore(bs) ==
    IF bs = <<>> THEN <<>>
    ELSE IF Head(bs) < 128 THEN <<Chr(Head(bs))>> \o DecodeIgnore(Tail(bs))
    ELSE DecodeIgnore(Tail(bs))

\* key in d
DictHas(d, k) == \E i \in 1..Len(d) : d[i][1] = k

\* d[key]
DictGet(d, k) == d[CHOOSE i \in 1..Len(d) : d[i][1] = k][2]

\* d[key] = value: an existing key keeps its position.
DictSet(d, k, v) ==
    IF DictHas(d, k)
    THEN [i \in 1..Len(d) |-> IF d[i][1] = k THEN <<k, v>> ELSE d[i]]
    ELSE Append(d, <<k, v>>)

\* A dict display or comprehension: the pairs are stored left to right.
RECURSIVE DictFromPairs(_)
DictFromPairs(pairs) ==
    IF pairs = <<>> THEN <<>>
    ELSE LET n == Len(pairs)
         IN  DictSet(DictFromPairs(SubSeq(pairs, 1, n - 1)), pairs[n][1], pairs[n][2])

\* d.values(), in insertion order.
DictValues(d) == [i \in 1..Len(d) |-> d[i][2]]

\* d.keys(), in insertion order.
DictKeys(d) == [i \in 1..Len(d) |-> d[i][1]]

Range(s) == {s[i] : i \in 1..Len(s)}

\* The value of one hexadecimal digit.
HexDigits == <<"0","1","2","3","4","5","6","7","8","9","a","b","c","d","e","f">>
HexVal(c) == (CHOOSE i \in 1..16 : HexDigits[i] = LowerChar(c)) - 1

\* int(s, 16) as <<high, low>> with low the 16 low bits.
RECURSIVE IntHex(_)
IntHex(s) ==
    IF s = <<>> THEN <<0, 0>>
    ELSE LET n    == Len(s)
             rest == IntHex(SubSeq(s, 1, n - 1))
             low  == rest[2] * 16 + HexVal(s[n])
         IN  <<rest[1] * 16 + (low \div 65536), low % 65536>>

-----------------------------------------------------------------------------
(* Numbers as text.  A number is <<high, low>> with 0 <= low < 65536.       *)

DecDigits == <<"0","1","2","3","4","5","6","7","8","9">>
DecVal(c) == (CHOOSE i \in 1..10 : DecDigits[i] = c) - 1

\* <<n div b, n mod b>> for a base b of 10 or 16.
DivMod(n, b) ==
    LET t == (n[1] % b) * 65536 + n[2]
    IN  << <<n[1] \div b, t \div b>>, t % b >>

\* The digits of n in base b, most significant first; none for 0.
RECURSIVE DigitsOf(_, _, _)
DigitsOf(n, b, digits) ==
    IF n = <<0, 0>> THEN <<>>
    ELSE LET qr == DivMod(n, b)
         IN  DigitsOf(qr[1], b, digits) \o <<digits[qr[2] + 1]>>

\* str(n) for n >= 0.
StrInt(n) == IF n = <<0, 0>> THEN <<"0">> ELSE DigitsOf(n, 10, DecDigits)

\* int(s) for a string of decimal digits.
RECURSIVE IntDec(_)
IntDec(s) ==
    IF s = <<>> THEN <<0, 0>>
    ELSE LET n    == Len(s)
             rest == IntDec(SubSeq(s, 1, n - 1))
             low  == rest[2] * 10 + DecVal(s[n])
         IN  <<rest[1] * 10 + (low \div 65536), low % 65536>>

\* format(n, "x")
HexInt(n) == IF n = <<0, 0>> THEN <<"0">> ELSE DigitsOf(n, 16, HexDigits)

\* Mutant: format(n, "x"), without the zero padding to 8 digits.
Format08x_NoPadding(n) == HexInt(n)

\* format(n, "08x"): at least 8 digits, padded on the left with zeros.
Format08x(n) ==
    LET h == HexInt(n)
    IN  IF Len(h) >= 8 THEN h ELSE [i \in 1..(8 - Len(h)) |-> "0"] \o h

-----------------------------------------------------------------------------
(* Configuration *)

\* TELEGRAM_GROUP_ID, read from the environment; never 0.
TELEGRAM_GROUP_ID == 1001

NameMSH1 == <<"M","S","H","1">>
NameMSH2 == <<"M","S","H","2">>
IdDeadbeef == <<"!","d","e","a","d","b","e","e","f">>
Id42babe42 == <<"!","4","2","b","a","b","e","4","2">>

\* The key: value pairs of the ALLOWED_NODES display, as written.
AllowedEntries == << <<NameMSH1, IdDeadbeef>>, <<NameMSH2, Id42babe42>> >>

ALLOWED_NODES == DictFromPairs(AllowedEntries)

\* {node_id: name for name, node_id in d.items()}
InverseDict(d) == DictFromPairs([i \in 1..Len(d) |-> <<d[i][2], d[i][1]>>])

NODE_ID_TO_NAME == InverseDict(ALLOWED_NODES)

\* No conversion helper has been called.
CodecIdle == [input |-> <<>>, trace |-> <<>>]

MESHTASTIC_BROADCAST_ID == IntHex(<<"f","f","f","f","f","f","f","f">>)

-----------------------------------------------------------------------------
(* HELPER FUNCTIONS *)

\* return str(int(node_id[1:], 16))
node_id_to_telegram_id(node_id) == StrInt(IntHex(SliceFrom(node_id, 1)))

\* return "!" + format(int(telegram_id), "08x")
telegram_id_to_node_id(telegram_id) == <<"!">> \o Format08x(IntDec(telegram_id))

-----------------------------------------------------------------------------
(* MESHTASTIC -> TELEGRAM *)

\* An outbound send has failed: send_message raised in send_to_telegram, or
\* sendText raised in telegram_to_mesh.
SendFailed ==
    \/ \E i \in 1..Len(chat_calls) : chat_calls[i].status = "failed"
    \/ \E i \in 1..Len(mesh_calls) : ~mesh_calls[i].ok

\* Mutant: only a missing fromId is rejected.
UnknownSender_PresenceOnly(packet) == "fromId" \notin DOMAIN packet

\* from_id = packet.get("fromId"); from_id not in NODE_ID_TO_NAME
UnknownSender(packet) ==
    \/ "fromId" \notin DOMAIN packet
    \/ ~DictHas(NODE_ID_TO_NAME, packet.fromId)

\* Mutant: the destination is compared with the 16-bit 0xFFFF.
IsBroadcast_ShortSentinel(packet) ==
    /\ "to" \in DOMAIN packet
    /\ packet.to = IntHex(<<"f","f","f","f">>)

\* packet.get("to") == MESHTASTIC_BROADCAST_ID
IsBroadcast(packet) ==
    /\ "to" \in DOMAIN packet
    /\ packet.to = MESHTASTIC_BROADCAST_ID

\* packet.get("decoded", {}).get("payload", b"")
PacketPayload(packet) ==
    IF "decoded" \in DOMAIN packet /\ "payload" \in DOMAIN packet.decoded
    THEN packet.decoded.payload
    ELSE <<>>

\* Mutant: the decoded text is not trimmed.
PacketText_NoStrip(packet) == DecodeIgnore(PacketPayload(packet))

\* text = payload.decode(errors="ignore").strip()
PacketText(packet) == Strip(DecodeIgnore(PacketPayload(packet)))

\* sender_name = NODE_ID_TO_NAME.get(from_id, from_id)
SenderName(from_id) ==
    IF DictHas(NODE_ID_TO_NAME, from_id) THEN DictGet(NODE_ID_TO_NAME, from_id) ELSE from_id

\* Mutant: the label is the raw identifier, not the nickname.
FormatMessage_RawId(from_id, text) == <<"[">> \o from_id \o <<"]", " ">> \o text

\* message = f"[{sender_name}] {text}"
FormatMessage(from_id, text) == <<"[">> \o SenderName(from_id) \o <<"]", " ">> \o text

\* The messages on_meshtastic_receive hands to the chat loop for one packet:
\* none when the packet is filtered out, one otherwise.
MeshMessages(packet) ==
    IF UnknownSender(packet) THEN <<>>
    ELSE IF IsBroadcast(packet) THEN <<>>
    ELSE IF PacketText(packet) = <<>> THEN <<>>
    ELSE <<FormatMessage(packet.fromId, PacketText(packet))>>

\* A send_message call has been made and has not completed.
SendInFlight == \E i \in 1..Len(chat_calls) : chat_calls[i].status = "pending"

\* Mutant: the callback waits for the result of the coroutine it scheduled,
\* so the mesh thread takes no packet while a send is scheduled or pending.
MeshCallbackReady_WaitsForSend == subscribed /\ loop_tasks = <<>> /\ ~SendInFlight

\* The mesh thread can invoke the callback: it is subscribed, and an earlier
\* invocation has returned, which it does right after run_coroutine_threadsafe.
MeshCallbackReady == subscribed

\* Mutant: the callback calls bot.send_message itself, on the mesh thread,
\* instead of scheduling send_to_telegram on main_loop.
on_meshtastic_receive_SendsDirectly(packet) ==
    /\ subscribed
    /\ Len(events) < MaxEvents
    /\ LET ev   == Len(events) + 1
           msgs == MeshMessages(packet)
       IN  /\ chat_calls' = chat_calls \o
                [i \in 1..Len(msgs) |->
                    [ev |-> ev, chat_id |-> TELEGRAM_GROUP_ID, text |-> msgs[i],
                     status |-> "pending", by |-> "mesh"]]
           /\ events' = Append(events, [kind |-> "mesh", packet |-> packet, raised |-> FALSE,
                                      after_failure |-> SendFailed,
                                      in_flight |-> SendInFlight])
    /\ UNCHANGED <<mesh_thread, entries, registry, codec, iface, bot_app, main_loop, subscribed, polling, loop_tasks, mesh_calls>>

\* The callback, run on the mesh transport's thread once subscribed.  With
\* main_loop still None, run_coroutine_threadsafe raises in the callback and
\* nothing reaches the loop.
on_meshtastic_receive(packet) ==
    /\ MeshCallbackReady
    /\ Len(events) < MaxEvents
    /\ LET ev   == Len(events) + 1
           msgs == MeshMessages(packet)
           lost == msgs # <<>> /\ main_loop = "None"
       IN  /\ loop_tasks' =
                IF lost THEN loop_tasks
                ELSE loop_tasks \o [i \in 1..Len(msgs) |-> [ev |-> ev, message |-> msgs[i]]]
           /\ events' = Append(events, [kind |-> "mesh", packet |-> packet, raised |-> lost,
                                      after_failure |-> SendFailed,
                                      in_flight |-> SendInFlight])
    /\ UNCHANGED <<mesh_thread, entries, registry, codec, iface, bot_app, main_loop, subscribed, polling, chat_calls, mesh_calls>>

\* Mutant: the loop starts the newest scheduled coroutine first.
send_to_telegram_NewestFirst ==
    /\ polling
    /\ loop_tasks # <<>>
    /\ LET task == loop_tasks[Len(loop_tasks)]
       IN  chat_calls' = Append(chat_calls,
                [ev      |-> task.ev,
                 chat_id |-> TELEGRAM_GROUP_ID,
                 text    |-> task.message,
                 status  |-> IF bot_app = "None" THEN "not_called" ELSE "pending",
                 by      |-> "loop"])
    /\ loop_tasks' = SubSeq(loop_tasks, 1, Len(loop_tasks) - 1)
    /\ UNCHANGED <<mesh_thread, entries, registry, codec, iface, bot_app, main_loop, subscribed, polling, mesh_calls, events>>

\* send_to_telegram up to its await: the loop starts the oldest scheduled
\* coroutine, which calls bot.send_message for the configured group.  With
\* bot_app still None the attribute access raises inside the try and is caught.
send_to_telegram ==
    /\ polling
    /\ loop_tasks # <<>>
    /\ LET task == Head(loop_tasks)
       IN  chat_calls' = Append(chat_calls,
                [ev      |-> task.ev,
                 chat_id |-> TELEGRAM_GROUP_ID,
                 text    |-> task.message,
                 status  |-> IF bot_app = "None" THEN "not_called" ELSE "pending",
                 by      |-> "loop"])
    /\ loop_tasks' = Tail(loop_tasks)
    /\ UNCHANGED <<mesh_thread, entries, registry, codec, iface, bot_app, main_loop, subscribed, polling, mesh_calls, events>>

\* Mutant: a failure of send_message stops the event loop.
send_message_returns_StopsLoop(i, ok) ==
    /\ polling
    /\ i \in 1..Len(chat_calls)
    /\ chat_calls[i].status = "pending"
    /\ chat_calls' = [chat_calls EXCEPT ![i].status = IF ok THEN "sent" ELSE "failed"]
    /\ polling' = ok
    /\ UNCHANGED <<mesh_thread, entries, registry, codec, iface, bot_app, main_loop, subscribed, loop_tasks, mesh_calls, events>>

\* Mutant: a failed send_message is tried again, the coroutine going back on
\* the loop.
send_message_returns_Retries(i, ok) ==
    /\ polling
    /\ i \in 1..Len(chat_calls)
    /\ chat_calls[i].status = "pending"
    /\ chat_calls' = [chat_calls EXCEPT ![i].status = IF ok THEN "sent" ELSE "failed"]
    /\ loop_tasks' = IF ok THEN loop_tasks
                     ELSE Append(loop_tasks, [ev |-> chat_calls[i].ev,
                                              message |-> chat_calls[i].text])
    /\ UNCHANGED <<mesh_thread, entries, registry, codec, iface, bot_app, main_loop, subscribed, polling, mesh_calls, events>>

\* The awaited send_message completes: it returns, or it raises and the
\* except clause prints the failure.  Either way the coroutine ends.
send_message_returns(i, ok) ==
    /\ polling
    /\ i \in 1..Len(chat_calls)
    /\ chat_calls[i].status = "pending"
    /\ chat_calls' = [chat_calls EXCEPT ![i].status = IF ok THEN "sent" ELSE "failed"]
    /\ UNCHANGED <<mesh_thread, entries, registry, codec, iface, bot_app, main_loop, subscribed, polling, loop_tasks, mesh_calls, events>>

-----------------------------------------------------------------------------
(* TELEGRAM -> MESHTASTIC *)

\* Mutant: only the unset group identifier 0 is rejected.
WrongChat_ZeroOnly(update) == update.chat_id = 0

\* update.effective_chat.id != TELEGRAM_GROUP_ID
WrongChat(update) == update.chat_id # TELEGRAM_GROUP_ID

\* text = update.message.text.strip()
UpdateText(update) == Strip(update.text)

\* Mutant: only the empty text is rejected.
NotDirective_EmptyOnly(text) == text = <<>>

\* not text or not text.startswith("@")
NotDirective(text) == text = <<>> \/ ~StartsWith(text, "@")

\* target_name = text[1:].split(" ")[0]
TargetName(text) == SplitSpaceFirst(SliceFrom(text, 1))

\* Mutant: the separator after the target is kept in the body.
MessageBody_KeepsSeparator(text, target_name) == SliceFrom(text, Len(target_name) + 1)

\* message_body = text[len(target_name) + 2:]
MessageBody(text, target_name) == SliceFrom(text, Len(target_name) + 2)

\* Mutant: nicknames are matched without regard to case.
Destinations_AnyCase(target_name) ==
    IF Lower(target_name) = <<"a", "l", "l">> THEN DictValues(ALLOWED_NODES)
    ELSE LET hits == {i \in 1..Len(ALLOWED_NODES) :
                         Lower(ALLOWED_NODES[i][1]) = Lower(target_name)}
         IN  IF hits = {} THEN <<>> ELSE <<ALLOWED_NODES[CHOOSE i \in hits : TRUE][2]>>

\* Mutant: an unregistered target is used as the destination itself, as with
\* ALLOWED_NODES.get(target_name, target_name).
Destinations_Fallback(target_name) ==
    IF Lower(target_name) = <<"a", "l", "l">> THEN DictValues(ALLOWED_NODES)
    ELSE IF DictHas(ALLOWED_NODES, target_name) THEN <<DictGet(ALLOWED_NODES, target_name)>>
    ELSE <<target_name>>

\* The identifiers the directive is sent to, in sending order: every value of
\* ALLOWED_NODES for "all" in any case, the entry of a registered nickname,
\* nothing otherwise.
Destinations(target_name) ==
    IF Lower(target_name) = <<"a", "l", "l">> THEN DictValues(ALLOWED_NODES)
    ELSE IF DictHas(ALLOWED_NODES, target_name) THEN <<DictGet(ALLOWED_NODES, target_name)>>
    ELSE <<>>

NoSend == [calls |-> <<>>, raised |-> FALSE]

\* iface.sendText(message_body, destinationId=node_id) for each identifier in
\* turn.  sendText raises for the identifiers in failing, and the attribute
\* access raises when iface is None; nothing catches either, so the first
\* exception ends the handler.
RECURSIVE SendTextLoop(_, _, _, _)
SendTextLoop(handle, ids, message_body, failing) ==
    IF ids = <<>> THEN NoSend
    ELSE IF handle = "None" THEN [calls |-> <<>>, raised |-> TRUE]
    ELSE LET call == [text |-> message_body, destinationId |-> Head(ids),
                      ok |-> Head(ids) \notin failing]
         IN  IF ~call.ok THEN [calls |-> <<call>>, raised |-> TRUE]
             ELSE LET rest == SendTextLoop(handle, Tail(ids), message_body, failing)
                  IN  [calls |-> <<call>> \o rest.calls, raised |-> rest.raised]

\* The sendText calls telegram_to_mesh makes for one update, and whether an
\* exception leaves the handler.
MeshSends(handle, update, failing) ==
    IF WrongChat(update) THEN NoSend
    ELSE LET text == UpdateText(update)
         IN  IF NotDirective(text) THEN NoSend
             ELSE LET target_name  == TargetName(text)
                      message_body == MessageBody(text, target_name)
                  IN  IF message_body = <<>> THEN NoSend
                      ELSE SendTextLoop(handle, Destinations(target_name),
                                        message_body, failing)

\* The handler, run on the chat event loop for every text update.  An
\* exception leaving it is caught and logged by the dispatcher of the chat
\* library, which goes on polling.
telegram_to_mesh(update, failing) ==
    /\ polling
    /\ Len(events) < MaxEvents
    /\ LET ev == Len(events) + 1
           r  == MeshSends(iface, update, failing)
       IN  /\ mesh_calls' = mesh_calls \o
                 [i \in 1..Len(r.calls) |->
                     [ev |-> ev, text |-> r.calls[i].text,
                      destinationId |-> r.calls[i].destinationId, ok |-> r.calls[i].ok,
                      by |-> "loop"]]
           /\ events' = Append(events, [kind |-> "chat", update |-> update, raised |-> r.raised,
                                      after_failure |-> SendFailed])
    /\ UNCHANGED <<mesh_thread, entries, registry, codec, iface, bot_app, main_loop, subscribed, polling, loop_tasks, chat_calls>>

-----------------------------------------------------------------------------
(* Inbound events *)

IdDeadbeefUpper == <<"!","D","E","A","D","B","E","E","F">>
IdStranger      == <<"!","0","0","0","0","0","0","2","a">>

FromIds == {IdDeadbeef, Id42babe42, IdDeadbeefUpper, IdStranger}

\* Destinations of inbound packets: the broadcast address and a node number.
ToValues == {MESHTASTIC_BROADCAST_ID, IntHex(<<"0","0","0","0","0","0","2","a">>)}

\* b"", b"hi", b" h\n", b"\xff", b"h\xffi"
Payloads == {<<>>, <<104, 105>>, <<32, 104, 10>>, <<255>>, <<104, 255, 105>>, <<32, 10>>}

\* Every payload from one registered sender to either destination and from
\* an unregistered sender to a node, one text payload from the other senders,
\* and packets lacking a field.
Packets ==
    {[fromId |-> IdDeadbeef, to |-> t, decoded |-> [payload |-> p]] :
        t \in ToValues, p \in Payloads}
    \cup {[fromId |-> IdStranger, to |-> t, decoded |-> [payload |-> p]] :
        t \in ToValues \ {MESHTASTIC_BROADCAST_ID}, p \in Payloads}
    \cup {[fromId |-> f, to |-> t, decoded |-> [payload |-> <<104, 105>>]] :
        f \in FromIds, t \in ToValues}
    \cup {[to |-> t, decoded |-> [payload |-> <<104, 105>>]] : t \in ToValues \ {MESHTASTIC_BROADCAST_ID}}
    \cup {[fromId |-> IdDeadbeef, to |-> t] : t \in ToValues \ {MESHTASTIC_BROADCAST_ID}}
    \cup {[fromId |-> IdDeadbeef, to |-> t, decoded |-> [portnum |-> "POSITION_APP"]] :
        t \in ToValues \ {MESHTASTIC_BROADCAST_ID}}

At == <<"@">>
Sp == <<" ">>

Texts ==
    { <<>>,
      Sp,
      <<"h", "i">>,
      <<"#">> \o NameMSH1 \o Sp \o <<"p">>,
      At \o <<"a","l","l">> \o Sp \o <<"p">>,
      At \o <<"A","l","L">> \o Sp \o <<"p">>,
      At \o NameMSH1 \o Sp \o <<"p">>,
      At \o NameMSH2 \o Sp \o <<"a"," ","b">>,
      Sp \o At \o NameMSH2 \o Sp \o <<"p">> \o <<"\n">>,
      At \o <<"m","s","h","1">> \o Sp \o <<"p">>,
      At \o <<"z","z">> \o Sp \o <<"p">>,
      At \o NameMSH1,
      At \o <<"a","l","l">>,
      At \o Sp \o <<"p">>,
      At \o NameMSH1 \o <<"\t">> \o <<"p">>,
      At \o NameMSH2 \o <<"\n">> \o <<"p">>,
      At \o NameMSH1 \o Sp \o Sp \o <<"p">> }

ChatIds == {TELEGRAM_GROUP_ID, TELEGRAM_GROUP_ID + 1}

\* Directives that would be relayed had they come from the configured group.
ForeignTexts ==
    { At \o <<"a","l","l">> \o Sp \o <<"p">>,
      At \o NameMSH1 \o Sp \o <<"p">>,
      <<"h", "i">> }

Updates ==
    {[chat_id |-> TELEGRAM_GROUP_ID, text |-> t] : t \in Texts}
    \cup {[chat_id |-> c, text |-> t] : c \in ChatIds \ {TELEGRAM_GROUP_ID}, t \in ForeignTexts}

\* The sets of identifiers for which sendText raises during one update.
FailingSets == SUBSET Range(DictValues(ALLOWED_NODES))

-----------------------------------------------------------------------------
(* The running bridge: start_meshtastic has subscribed the callback and main *)
(* has reached run_polling.                                                  *)

Init ==
    /\ mesh_thread = "done"
    /\ entries = AllowedEntries
    /\ registry = [built |-> TRUE, forward |-> ALLOWED_NODES, reverse |-> NODE_ID_TO_NAME]
    /\ codec = CodecIdle
    /\ iface = "SerialInterface"
    /\ bot_app = "Application"
    /\ main_loop = "loop"
    /\ subscribed = TRUE
    /\ polling = TRUE
    /\ loop_tasks = <<>>
    /\ chat_calls = <<>>
    /\ mesh_calls = <<>>
    /\ events = <<>>

Next ==
    \/ \E packet \in Packets : on_meshtastic_receive(packet)
    \/ send_to_telegram
    \/ \E i \in 1..Len(chat_calls), ok \in BOOLEAN : send_message_returns(i, ok)
    \/ \E update \in Updates, failing \in FailingSets : telegram_to_mesh(update, failing)

Spec == Init /\ [][Next]_vars

-----------------------------------------------------------------------------
(* Building the whitelist: the module-level statements that bind            *)
(* ALLOWED_NODES and NODE_ID_TO_NAME, for any display of up to MaxEntries   *)
(* key: value pairs over the two nicknames and the two identifiers.         *)

EntryNames == {NameMSH1, NameMSH2}
EntryIds   == {IdDeadbeef, Id42babe42}

EntryLists == UNION {[1..n -> EntryNames \X EntryIds] : n \in 0..MaxEntries}

NotBuilt == [built |-> FALSE, forward |-> <<>>, reverse |-> <<>>]

\* ALLOWED_NODES = {...}; NODE_ID_TO_NAME = {node_id: name for ...}.  Neither
\* statement can raise: a repeated key overwrites the earlier value.
build_registry ==
    /\ ~registry.built
    /\ registry' = [built   |-> TRUE,
                    forward |-> DictFromPairs(entries),
                    reverse |-> InverseDict(DictFromPairs(entries))]
    /\ UNCHANGED <<mesh_thread, entries, codec, iface, bot_app, main_loop, subscribed,
                   polling, loop_tasks, chat_calls, mesh_calls, events>>

\* The process before main() runs: no thread, no handle, nothing relayed.
NotStarted ==
    /\ mesh_thread = "not_started"
    /\ iface = "None"
    /\ bot_app = "None"
    /\ main_loop = "None"
    /\ subscribed = FALSE
    /\ polling = FALSE
    /\ loop_tasks = <<>>
    /\ chat_calls = <<>>
    /\ mesh_calls = <<>>
    /\ events = <<>>

InitRegistry ==
    /\ NotStarted
    /\ entries \in EntryLists
    /\ registry = NotBuilt
    /\ codec = CodecIdle

NextRegistry == build_registry

SpecRegistry == InitRegistry /\ [][NextRegistry]_vars

-----------------------------------------------------------------------------
(* The conversion helpers, applied in turn to an identifier in either form. *)

\* Four-digit halves of canonical node identifiers.
HexQuads ==
    { <<"0","0","0","0">>, <<"0","0","0","1">>, <<"0","0","f","f">>, <<"0","a","0","0">>,
      <<"4","2","b","a">>, <<"b","e","4","2">>, <<"d","e","a","d">>, <<"b","e","e","f">>,
      <<"8","2","2","3">>, <<"5","a","c","6">>, <<"7","f","f","f">>, <<"8","0","0","0">>,
      <<"f","f","f","f">> }

\* Node identifiers in canonical form: "!" and 8 lowercase hex digits.
NodeIdInputs == {<<"!">> \o a \o b : a \in HexQuads, b \in HexQuads}

\* Unsigned 32-bit numbers in decimal: 0, 1, 9, 10, 255, 65535, 65536,
\* 2^31 - 1, 2^31, 0x82235ac6, 0xdeadbeef, 0x42babe42 and 2^32 - 1.
DecimalInputs ==
    { <<"0">>, <<"1">>, <<"9">>, <<"1","0">>, <<"2","5","5">>,
      <<"6","5","5","3","5">>, <<"6","5","5","3","6">>,
      <<"2","1","4","7","4","8","3","6","4","7">>,
      <<"2","1","4","7","4","8","3","6","4","8">>,
      <<"2","1","8","3","3","5","5","0","7","8">>,
      <<"3","7","3","5","9","2","8","5","5","9">>,
      <<"1","1","1","9","5","3","4","6","5","8">>,
      <<"4","2","9","4","9","6","7","2","9","5">> }

\* The value the next conversion is applied to.
CodecCurrent == IF codec.trace = <<>> THEN codec.input ELSE codec.trace[Len(codec.trace)]

call_node_id_to_telegram_id ==
    /\ codec.input # <<>>
    /\ Len(codec.trace) < 2
    /\ StartsWith(CodecCurrent, "!")
    /\ codec' = [codec EXCEPT !.trace = Append(@, node_id_to_telegram_id(CodecCurrent))]
    /\ UNCHANGED <<mesh_thread, entries, registry, iface, bot_app, main_loop, subscribed,
                   polling, loop_tasks, chat_calls, mesh_calls, events>>

call_telegram_id_to_node_id ==
    /\ codec.input # <<>>
    /\ Len(codec.trace) < 2
    /\ ~StartsWith(CodecCurrent, "!")
    /\ codec' = [codec EXCEPT !.trace = Append(@, telegram_id_to_node_id(CodecCurrent))]
    /\ UNCHANGED <<mesh_thread, entries, registry, iface, bot_app, main_loop, subscribed,
                   polling, loop_tasks, chat_calls, mesh_calls, events>>

InitCodec ==
    /\ NotStarted
    /\ entries = AllowedEntries
    /\ registry = [built |-> TRUE, forward |-> ALLOWED_NODES, reverse |-> NODE_ID_TO_NAME]
    /\ codec \in {[input |-> x, trace |-> <<>>] : x \in NodeIdInputs \cup DecimalInputs}

NextCodec ==
    \/ call_node_id_to_telegram_id
    \/ call_telegram_id_to_node_id

SpecCodec == InitCodec /\ [][NextCodec]_vars

-----------------------------------------------------------------------------
(* Startup: main() on the main thread and start_meshtastic() on the
   background thread it starts, interleaved step by step with the handlers,
   which run as soon as their transport delivers events. *)

\* threading.Thread(target=start_meshtastic, daemon=True).start()
main_starts_thread ==
    /\ mesh_thread = "not_started"
    /\ mesh_thread' = "running"
    /\ UNCHANGED <<entries, registry, codec, iface, bot_app, main_loop, subscribed, polling,
                   loop_tasks, chat_calls, mesh_calls, events>>

\* bot_app = ApplicationBuilder().token(TELEGRAM_BOT_TOKEN).build(), with
\* telegram_to_mesh added as its handler.
main_builds_bot_app ==
    /\ mesh_thread # "not_started"
    /\ bot_app = "None"
    /\ bot_app' = "Application"
    /\ UNCHANGED <<mesh_thread, entries, registry, codec, iface, main_loop, subscribed, polling,
                   loop_tasks, chat_calls, mesh_calls, events>>

\* main_loop = asyncio.get_event_loop()
main_saves_loop ==
    /\ bot_app # "None"
    /\ main_loop = "None"
    /\ main_loop' = "loop"
    /\ UNCHANGED <<mesh_thread, entries, registry, codec, iface, bot_app, subscribed, polling,
                   loop_tasks, chat_calls, mesh_calls, events>>

\* bot_app.run_polling(): the loop runs, updates are dispatched from now on.
main_runs_polling ==
    /\ main_loop # "None"
    /\ ~polling
    /\ polling' = TRUE
    /\ UNCHANGED <<mesh_thread, entries, registry, codec, iface, bot_app, main_loop, subscribed,
                   loop_tasks, chat_calls, mesh_calls, events>>

\* main(), one statement at a time.
main ==
    \/ main_starts_thread
    \/ main_builds_bot_app
    \/ main_saves_loop
    \/ main_runs_polling

\* iface = meshtastic.serial_interface.SerialInterface(): the constructor
\* returns and iface is assigned, or it raises (no device), which ends the
\* thread with iface still None.
start_meshtastic_connects(ok) ==
    /\ mesh_thread = "running"
    /\ iface = "None"
    /\ iface' = IF ok THEN "SerialInterface" ELSE "None"
    /\ mesh_thread' = IF ok THEN "running" ELSE "dead"
    /\ UNCHANGED <<entries, registry, codec, bot_app, main_loop, subscribed, polling,
                   loop_tasks, chat_calls, mesh_calls, events>>

\* pub.subscribe(on_meshtastic_receive, "meshtastic.receive"), the last
\* statement with an effect: packets reach the callback from now on.
start_meshtastic_subscribes ==
    /\ mesh_thread = "running"
    /\ iface # "None"
    /\ subscribed' = TRUE
    /\ mesh_thread' = "done"
    /\ UNCHANGED <<entries, registry, codec, iface, bot_app, main_loop, polling,
                   loop_tasks, chat_calls, mesh_calls, events>>

\* start_meshtastic(), one statement at a time.
start_meshtastic ==
    \/ \E ok \in BOOLEAN : start_meshtastic_connects(ok)
    \/ start_meshtastic_subscribes

\* The process as __main__ enters main(): module globals initialised, no
\* thread started.
InitStartup ==
    /\ NotStarted
    /\ entries = AllowedEntries
    /\ registry = [built |-> TRUE, forward |-> ALLOWED_NODES, reverse |-> NODE_ID_TO_NAME]
    /\ codec = CodecIdle

NextStartup ==
    \/ main
    \/ start_meshtastic
    \/ Next

SpecStartup == InitStartup /\ [][NextStartup]_vars

-----------------------------------------------------------------------------
(* Properties *)

\* The identifiers of the static whitelist.

WhitelistIds == Range(DictValues(ALLOWED_NODES))

\* The nickname the whitelist registers for an identifier (forward view).
NicknameOf(id) == CHOOSE n \in Range(DictKeys(ALLOWED_NODES)) : DictGet(ALLOWED_NODES, n) = id

\* What event e has put on the chat side: coroutines still waiting on the
\* loop, and send_message calls made.
ChatTasksOf(e) == {i \in 1..Len(loop_tasks) : loop_tasks[i].ev = e}
ChatCallsOf(e) == {i \in 1..Len(chat_calls) : chat_calls[i].ev = e}
ChatOutOf(e)   == Cardinality(ChatTasksOf(e)) + Cardinality(ChatCallsOf(e))

\* The sendText calls made for event e.
MeshCallsOf(e) == {i \in 1..Len(mesh_calls) : mesh_calls[i].ev = e}

MeshEvents == {e \in 1..Len(events) : events[e].kind = "mesh"}
ChatEvents == {e \in 1..Len(events) : events[e].kind = "chat"}

\* The text every output of event e on the chat side carries.
ChatTextIs(e, text) ==
    /\ \A i \in ChatTasksOf(e) : loop_tasks[i].message = text
    /\ \A i \in ChatCallsOf(e) : chat_calls[i].text = text

\* The packet of mesh event e comes from a sender of the reverse view.
FromRegistered(e) ==
    /\ "fromId" \in DOMAIN events[e].packet
    /\ DictHas(NODE_ID_TO_NAME, events[e].packet.fromId)

\* The packet of mesh event e is addressed to 0xFFFFFFFF = 65535 * 65536 + 65535.
ToBroadcast(e) ==
    /\ "to" \in DOMAIN events[e].packet
    /\ events[e].packet.to = <<65535, 65535>>

\* C1: every sendText call made goes to an identifier of ALLOWED_NODES and
\* every send_message call, made or scheduled, is addressed to
\* TELEGRAM_GROUP_ID, whatever events were handled.
C1_SendsStayInWhitelist ==
    /\ \A i \in 1..Len(mesh_calls) : mesh_calls[i].destinationId \in WhitelistIds
    /\ \A i \in 1..Len(chat_calls) : chat_calls[i].chat_id = TELEGRAM_GROUP_ID

\* C1 witness: both directions have sent.
C1_Witness ==
    /\ \E i \in 1..Len(mesh_calls) : mesh_calls[i].destinationId = Id42babe42
    /\ \E i \in 1..Len(chat_calls) : chat_calls[i].chat_id = TELEGRAM_GROUP_ID

\* C2: a mesh event whose fromId is absent from NODE_ID_TO_NAME schedules
\* nothing on the chat loop and causes no send_message call.
C2_UnknownSenderDropped ==
    \A e \in MeshEvents : ~FromRegistered(e) => ChatOutOf(e) = 0

\* C2 witness: a directly addressed text packet from an unregistered sender
\* has been handled.
C2_Witness ==
    \E e \in MeshEvents :
        /\ events[e].packet = [fromId |-> IdStranger,
                               to |-> IntHex(<<"0","0","0","0","0","0","2","a">>),
                               decoded |-> [payload |-> <<104, 105>>]]
        /\ ChatOutOf(e) = 0

\* C3: a mesh event addressed to the broadcast sentinel causes no chat
\* output, even from a registered sender with a text payload.
C3_BroadcastDropped ==
    \A e \in MeshEvents : ToBroadcast(e) => ChatOutOf(e) = 0

\* C3 witness: a broadcast text packet from a registered sender has been
\* handled.
C3_Witness ==
    \E e \in MeshEvents :
        /\ events[e].packet = [fromId |-> IdDeadbeef, to |-> <<65535, 65535>>,
                               decoded |-> [payload |-> <<104, 105>>]]
        /\ ChatOutOf(e) = 0

\* C4: a mesh event from a registered sender with nickname N, not addressed
\* to broadcast, whose decoded and trimmed text T is not empty, has exactly
\* one output on the chat side (scheduled on the loop or already sent), with
\* body "[" + N + "] " + T; the payload b"hi" from !deadbeef gives "[MSH1] hi".
C4_RelayedOnceWithLabel ==
    \A e \in MeshEvents :
        LET packet == events[e].packet
            T == Strip(DecodeIgnore(PacketPayload(packet)))
        IN  (FromRegistered(e) /\ ~ToBroadcast(e) /\ T # <<>>) =>
                /\ ChatOutOf(e) = 1
                /\ ChatTextIs(e, <<"[">> \o NicknameOf(packet.fromId) \o <<"]", " ">> \o T)
                /\ (packet.fromId = IdDeadbeef /\ PacketPayload(packet) = <<104, 105>>) =>
                        ChatTextIs(e, <<"[","M","S","H","1","]"," ","h","i">>)

\* C4 witness: the send_message call for b" h\n" from !deadbeef has been made.
C4_Witness ==
    \E e \in MeshEvents :
        /\ FromRegistered(e)
        /\ events[e].packet.fromId = IdDeadbeef
        /\ PacketPayload(events[e].packet) = <<32, 104, 10>>
        /\ \E i \in ChatCallsOf(e) : chat_calls[i].text = <<"[","M","S","H","1","]"," ","h">>

\* Target tokens and bodies of the directives "@" + token + " " + body.
AllTokens          == {<<"a","l","l">>, <<"A","l","L">>}
RegisteredTokens   == {<<"M","S","H","1">>, <<"M","S","H","2">>}
UnregisteredTokens == {<<"m","s","h","1">>, <<"z","z">>, <<>>}
Bodies             == {<<"p">>, <<"a"," ","b">>, <<" ","p">>}

\* The identifier registered for a nickname, as the configuration lists it.
RegisteredId(n) == IF n = <<"M","S","H","1">> THEN IdDeadbeef ELSE Id42babe42

\* Chat event e comes from the configured group.
FromGroup(e) == events[e].update.chat_id = TELEGRAM_GROUP_ID

\* The text of chat event e is "@" + token + " " + body.
IsDirective(e, token, body) == events[e].update.text = <<"@">> \o token \o <<" ">> \o body

\* The sendText calls of event e to one identifier.
MeshCallsTo(e, id) == {i \in MeshCallsOf(e) : mesh_calls[i].destinationId = id}

\* C5: a directive to "all" (in any case) from the configured group with a
\* non-empty body has exactly one sendText attempt with that body for every
\* whitelisted identifier, whether or not the attempt for another identifier
\* failed.
C5_AllReachesEveryNode ==
    \A e \in ChatEvents : \A token \in AllTokens, body \in Bodies :
        (FromGroup(e) /\ IsDirective(e, token, body)) =>
            \A id \in WhitelistIds :
                /\ Cardinality(MeshCallsTo(e, id)) = 1
                /\ \A i \in MeshCallsTo(e, id) : mesh_calls[i].text = body

\* C6: a directive "@" + N + " " + B from the configured group, N a
\* registered nickname and B not empty, has exactly one sendText call, to the
\* identifier registered for N, with body B.
C6_NicknameReachesItsNode ==
    \A e \in ChatEvents : \A token \in RegisteredTokens, body \in Bodies :
        (FromGroup(e) /\ IsDirective(e, token, body)) =>
            /\ Cardinality(MeshCallsOf(e)) = 1
            /\ \A i \in MeshCallsOf(e) :
                  /\ mesh_calls[i].destinationId = RegisteredId(token)
                  /\ mesh_calls[i].text = body

\* C6 witness: "@MSH2 a b" has been sent to !42babe42 with body "a b".
C6_Witness ==
    \E e \in ChatEvents :
        /\ FromGroup(e)
        /\ IsDirective(e, <<"M","S","H","2">>, <<"a"," ","b">>)
        /\ \E i \in MeshCallsOf(e) :
              /\ mesh_calls[i].destinationId = Id42babe42
              /\ mesh_calls[i].text = <<"a"," ","b">>

\* C7: a directive whose target token is neither a registered nickname in
\* the registered case nor "all" in any case has no sendText call, and its
\* handler raises nothing.
C7_UnknownTargetDropped ==
    \A e \in ChatEvents : \A token \in UnregisteredTokens, body \in Bodies :
        IsDirective(e, token, body) =>
            /\ MeshCallsOf(e) = {}
            /\ ~events[e].raised

\* C7 witness: "@msh1 p" from the configured group has been handled.
C7_Witness ==
    \E e \in ChatEvents :
        /\ FromGroup(e)
        /\ IsDirective(e, <<"m","s","h","1">>, <<"p">>)
        /\ MeshCallsOf(e) = {}

\* The text is empty after trimming, or its first character after trimming
\* is not "@".
NoMarker(text) ==
    \A i \in 1..Len(text) : text[i] = "@" => \E j \in 1..(i - 1) : ~IsSpace(text[j])

\* C8: a chat message whose trimmed text is empty or does not start with "@"
\* has no sendText call.
C8_NoMarkerDropped ==
    \A e \in ChatEvents : NoMarker(events[e].update.text) => MeshCallsOf(e) = {}

\* C8 witness: "#MSH1 p" from the configured group has been handled.
C8_Witness ==
    \E e \in ChatEvents :
        /\ FromGroup(e)
        /\ events[e].update.text = <<"#","M","S","H","1"," ","p">>
        /\ MeshCallsOf(e) = {}

\* C9: a chat message from any chat other than the configured group has no
\* sendText call, whatever its text.
C9_ForeignChatDropped ==
    \A e \in ChatEvents : ~FromGroup(e) => MeshCallsOf(e) = {}

\* C9 witness: "@all p" from another chat has been handled.
C9_Witness ==
    \E e \in ChatEvents :
        /\ ~FromGroup(e)
        /\ IsDirective(e, <<"a","l","l">>, <<"p">>)
        /\ MeshCallsOf(e) = {}

\* C10: once an outbound send has failed in either direction, the callback is
\* still subscribed, the loop is still running and the three handles are still
\* assigned, so both handlers and the scheduled coroutines still run, and an
\* event handled after the failure is relayed as a first event would be: an
\* unregistered or broadcast packet is dropped, b"hi" from !deadbeef goes out
\* once as "[MSH1] hi", a foreign or unknown directive is dropped, and
\* "@MSH2 a b" is sent once to !42babe42 with body "a b".
C10_FailureLeavesRelayWorking ==
    /\ SendFailed =>
          /\ subscribed /\ main_loop # "None"
          /\ polling /\ iface # "None" /\ bot_app # "None"
    /\ \A e \in MeshEvents :
          events[e].after_failure =>
             /\ (~FromRegistered(e) \/ ToBroadcast(e)) => ChatOutOf(e) = 0
             /\ events[e].packet = [fromId |-> IdDeadbeef,
                                    to |-> IntHex(<<"0","0","0","0","0","0","2","a">>),
                                    decoded |-> [payload |-> <<104, 105>>]] =>
                   /\ ChatOutOf(e) = 1
                   /\ ChatTextIs(e, <<"[","M","S","H","1","]"," ","h","i">>)
    /\ \A e \in ChatEvents :
          events[e].after_failure =>
             /\ (~FromGroup(e) \/ \E token \in UnregisteredTokens, body \in Bodies :
                                      IsDirective(e, token, body)) => MeshCallsOf(e) = {}
             /\ (FromGroup(e) /\ IsDirective(e, <<"M","S","H","2">>, <<"a"," ","b">>)) =>
                   /\ Cardinality(MeshCallsOf(e)) = 1
                   /\ \A i \in MeshCallsOf(e) :
                         /\ mesh_calls[i].destinationId = Id42babe42
                         /\ mesh_calls[i].text = <<"a"," ","b">>

\* C10 witness: the send_message call of the first event raised, and the
\* directive "@MSH2 a b" handled after it was sent.
C10_Witness ==
    /\ \E i \in 1..Len(chat_calls) : chat_calls[i].status = "failed"
    /\ \E e \in ChatEvents :
          /\ events[e].after_failure
          /\ FromGroup(e)
          /\ IsDirective(e, <<"M","S","H","2">>, <<"a"," ","b">>)
          /\ \E i \in MeshCallsOf(e) : mesh_calls[i].ok

\* A sendText failure followed by a mesh packet that is relayed and sent.
C10_WitnessMeshAfterMeshFailure ==
    /\ \E i \in 1..Len(mesh_calls) : ~mesh_calls[i].ok
    /\ \E e \in MeshEvents :
          /\ events[e].after_failure
          /\ \E i \in ChatCallsOf(e) : chat_calls[i].status = "sent"

\* C11: a send_message call that raised is the only output its mesh event
\* ever has on the chat side: nothing for the event is scheduled again and no
\* second call is made; the exception stays inside send_to_telegram, so the
\* loop keeps running.  The same holds for a call that returned.
C11_FailedSendNotRetried ==
    \A i \in 1..Len(chat_calls) :
        chat_calls[i].status \in {"failed", "sent"} =>
            /\ ChatTasksOf(chat_calls[i].ev) = {}
            /\ ChatCallsOf(chat_calls[i].ev) = {i}
            /\ polling

\* C11 witness: the call for the first event raised, and a second event was
\* handled afterwards with the loop idle.
C11_Witness ==
    /\ Len(events) = 2
    /\ loop_tasks = <<>>
    /\ \E i \in 1..Len(chat_calls) :
          /\ chat_calls[i].status = "failed"
          /\ chat_calls[i].ev = 1
          /\ events[2].after_failure

\* Two pairs of the display have the same nickname, or the same identifier.
HasDuplicate(pairs) ==
    \E i, j \in 1..Len(pairs) :
        i # j /\ (pairs[i][1] = pairs[j][1] \/ pairs[i][2] = pairs[j][2])

\* Every identifier the forward view gives for a nickname is mapped back to
\* that nickname by the reverse view.
ViewsAgree(r) ==
    \A i \in 1..Len(r.forward) :
        /\ DictHas(r.reverse, r.forward[i][2])
        /\ DictGet(r.reverse, r.forward[i][2]) = r.forward[i][1]

\* C12: a display with a repeated nickname or a repeated identifier never
\* becomes a built registry, and a built registry has agreeing views.
C12_DuplicatesRejected ==
    registry.built => (~HasDuplicate(entries) /\ ViewsAgree(registry))

\* The second half of C12 alone: a built registry has agreeing views.  It
\* fails for <<MSH1, !deadbeef>>, <<MSH2, !deadbeef>>.
C12_BuiltViewsAgree == registry.built => ViewsAgree(registry)

\* C13: converting an unsigned 32-bit number, given in decimal, to a node
\* identifier and back gives the number again, and converting a canonical
\* node identifier to decimal and back gives the identifier again.  The
\* examples of the docstrings hold: "!82235ac6" is "2183355078", and
\* "!ffffffff" is "4294967295".
C13_CodecRoundTrips ==
    /\ Len(codec.trace) = 2 => codec.trace[2] = codec.input
    /\ (Len(codec.trace) >= 1 /\ codec.input = <<"!","8","2","2","3","5","a","c","6">>) =>
          codec.trace[1] = <<"2","1","8","3","3","5","5","0","7","8">>
    /\ (Len(codec.trace) >= 1 /\ codec.input = <<"2","1","8","3","3","5","5","0","7","8">>) =>
          codec.trace[1] = <<"!","8","2","2","3","5","a","c","6">>
    /\ (Len(codec.trace) >= 1 /\ codec.input = <<"4","2","9","4","9","6","7","2","9","5">>) =>
          codec.trace[1] = <<"!","f","f","f","f","f","f","f","f">>
    /\ (Len(codec.trace) >= 1 /\ codec.input = <<"!","0","0","0","0","0","0","0","1">>) =>
          codec.trace[1] = <<"1">>

\* C13 witness: "!0000ffff" has gone to "65535" and back.
C13_Witness ==
    /\ codec.input = <<"!","0","0","0","0","f","f","f","f">>
    /\ codec.trace = << <<"6","5","5","3","5">>, <<"!","0","0","0","0","f","f","f","f">> >>

\* Both directions have been walked: "255" has gone to "!000000ff" and back.
C13_WitnessFromDecimal ==
    /\ codec.input = <<"2","5","5">>
    /\ codec.trace = << <<"!","0","0","0","0","0","0","f","f">>, <<"2","5","5">> >>

\* C14: while a coroutine waits on the loop or a send_message call is
\* pending, the mesh thread is not held by the callback: it can take the
\* next packet.
C14_ReceiveNeverWaits ==
    (loop_tasks # <<>> \/ SendInFlight) => MeshCallbackReady

\* C14 witness: a packet was accepted and scheduled while the send_message
\* call of an earlier packet was pending, and that call is pending still.
C14_Witness ==
    \E e \in MeshEvents :
        /\ events[e].in_flight
        /\ Cardinality(ChatTasksOf(e)) = 1
        /\ \E i \in 1..Len(chat_calls) : chat_calls[i].ev < e /\ chat_calls[i].status = "pending"

\* C15: send_message calls are made in the order the callback accepted the
\* packets: the calls made are in event order, the coroutines waiting on the
\* loop are in event order, and every waiting coroutine belongs to a later
\* event than every call made, whether earlier calls are pending or failed.
C15_ChatSendsInMeshOrder ==
    /\ \A i, j \in 1..Len(chat_calls) : i < j => chat_calls[i].ev < chat_calls[j].ev
    /\ \A i, j \in 1..Len(loop_tasks) : i < j => loop_tasks[i].ev < loop_tasks[j].ev
    /\ \A i \in 1..Len(chat_calls), j \in 1..Len(loop_tasks) :
          chat_calls[i].ev < loop_tasks[j].ev

\* C15 witness: the call for the first packet was made first and failed, and
\* the call for the second packet was made after it and returned.
C15_Witness ==
    /\ Len(chat_calls) = 2
    /\ chat_calls[1].ev = 1 /\ chat_calls[1].status = "failed"
    /\ chat_calls[2].ev = 2 /\ chat_calls[2].status = "sent"

\* C16 as claimed: no transport is called from the other side's context:
\* send_message is called on the event loop only, and sendText is not called
\* from the event loop.
C16_NoDirectCrossContextCall ==
    /\ \A i \in 1..Len(chat_calls) : chat_calls[i].by = "loop"
    /\ \A i \in 1..Len(mesh_calls) : mesh_calls[i].by # "loop"

\* C16 as amended: send_message is called on the event loop only, the mesh
\* callback reaching it through run_coroutine_threadsafe; sendText is called
\* by telegram_to_mesh itself, on the event loop.
C16_OnlyMeshSideHandsOff ==
    /\ \A i \in 1..Len(chat_calls) : chat_calls[i].by = "loop"
    /\ \A i \in 1..Len(mesh_calls) : mesh_calls[i].by = "loop"

\* C16 witness: a packet has been sent to the chat and a directive to the mesh.
C16_Witness ==
    /\ \E i \in 1..Len(chat_calls) : chat_calls[i].status = "sent" /\ chat_calls[i].by = "loop"
    /\ \E i \in 1..Len(mesh_calls) : mesh_calls[i].ok /\ mesh_calls[i].by = "loop"

\* C17: a mesh event whose fromId equals a whitelisted identifier up to the
\* case of its hex digits, not addressed to broadcast and with non-empty
\* trimmed text T, is relayed once under that identifier's nickname; "hi"
\* from "!DEADBEEF" gives "[MSH1] hi" as from "!deadbeef".
C17_WhitelistIgnoresCase ==
    \A e \in MeshEvents :
        LET packet == events[e].packet
            T == Strip(DecodeIgnore(PacketPayload(packet)))
        IN  ("fromId" \in DOMAIN packet /\ Lower(packet.fromId) \in WhitelistIds
                /\ ~ToBroadcast(e) /\ T # <<>>) =>
                /\ ChatOutOf(e) = 1
                /\ ChatTextIs(e, <<"[">> \o NicknameOf(Lower(packet.fromId)) \o <<"]", " ">> \o T)

\* The single whitespace characters that may separate target and body.
Separators == {" ", "\t", "\n"}

\* C18: a group message "@" + T + w + B, with T a registered nickname, w one
\* whitespace character of any kind and B not empty, has exactly one sendText
\* call, to T's identifier with body B; and a group message whose target
\* token is empty ("@ p") or that has no body after the target ("@MSH1",
\* "@all") has no sendText call.
C18_SplitsOnAnyWhitespace ==
    \A e \in ChatEvents : FromGroup(e) =>
        /\ \A token \in RegisteredTokens, w \in Separators, body \in Bodies :
              events[e].update.text = <<"@">> \o token \o <<w>> \o body =>
                  /\ Cardinality(MeshCallsOf(e)) = 1
                  /\ \A i \in MeshCallsOf(e) :
                        /\ mesh_calls[i].destinationId = RegisteredId(token)
                        /\ mesh_calls[i].text = body
        /\ events[e].update.text \in
              {<<"@", " ", "p">>, <<"@","M","S","H","1">>, <<"@","a","l","l">>} =>
                  MeshCallsOf(e) = {}

\* The second half of C18 alone: empty target or missing body, no sendText.
C18_EmptyTargetOrBodyDropped ==
    \A e \in ChatEvents :
        (FromGroup(e) /\ events[e].update.text \in
              {<<"@", " ", "p">>, <<"@","M","S","H","1">>, <<"@","a","l","l">>}) =>
            MeshCallsOf(e) = {}

\* The body a label alone would make: "[" + nickname + "] ".
EmptyLabelled == {<<"[">> \o n \o <<"]", " ">> : n \in Range(DictKeys(ALLOWED_NODES))}

\* C19: a mesh event from a registered sender, not addressed to broadcast,
\* whose payload is absent, empty, or decodes (undecodable bytes ignored) to
\* text that is empty once trimmed, has no output on the chat side and its
\* handler raises nothing; no message "[nickname] " with empty text is ever
\* scheduled or sent.
C19_EmptyTextDropped ==
    /\ \A e \in MeshEvents :
          (FromRegistered(e) /\ ~ToBroadcast(e)
              /\ Strip(DecodeIgnore(PacketPayload(events[e].packet))) = <<>>) =>
                  ChatOutOf(e) = 0 /\ ~events[e].raised
    /\ \A i \in 1..Len(loop_tasks) : loop_tasks[i].message \notin EmptyLabelled
    /\ \A i \in 1..Len(chat_calls) :
          /\ chat_calls[i].text \notin EmptyLabelled
          /\ Strip(chat_calls[i].text) \notin {Strip(m) : m \in EmptyLabelled}

\* C19 witness: a whitespace-only payload and a packet without a decoded
\* part, both from !deadbeef to a node, have been handled without output.
C19_Witness ==
    \E e1, e2 \in MeshEvents :
        /\ events[e1].packet = [fromId |-> IdDeadbeef,
                                to |-> IntHex(<<"0","0","0","0","0","0","2","a">>),
                                decoded |-> [payload |-> <<32, 10>>]]
        /\ events[e2].packet = [fromId |-> IdDeadbeef,
                                to |-> IntHex(<<"0","0","0","0","0","0","2","a">>)]
        /\ ChatOutOf(e1) = 0 /\ ChatOutOf(e2) = 0
        /\ ~events[e1].raised /\ ~events[e2].raised

\* C19 witness: a payload with no decodable byte has been handled without
\* output.
C19_WitnessUndecodable ==
    \E e \in MeshEvents :
        /\ events[e].packet = [fromId |-> IdDeadbeef,
                               to |-> IntHex(<<"0","0","0","0","0","0","2","a">>),
                               decoded |-> [payload |-> <<255>>]]
        /\ ChatOutOf(e) = 0 /\ ~events[e].raised

\* The handler of event e used a handle that was still None: the mesh
\* callback reached run_coroutine_threadsafe with main_loop None, or the chat
\* handler reached iface.sendText with iface None (it raised without a call
\* having been made).
UsedMissingHandle(e) ==
    IF events[e].kind = "mesh" THEN events[e].raised
    ELSE events[e].raised /\ MeshCallsOf(e) = {}

\* C20: in every interleaving of main() and start_meshtastic(), whenever
\* on_meshtastic_receive reaches the handoff main_loop is not None, and
\* whenever telegram_to_mesh reaches a sendText call iface is not None.
C20_HandlesAssignedBeforeUse ==
    \A e \in 1..Len(events) : ~UsedMissingHandle(e)

\* The first half of C20 alone: the mesh callback never finds main_loop None.
C20_LoopAssignedBeforeHandoff ==
    \A e \in MeshEvents : ~UsedMissingHandle(e)

\* The second half of C20 alone: the chat handler never finds iface None.
C20_IfaceAssignedBeforeSend ==
    \A e \in ChatEvents : ~UsedMissingHandle(e)

====
